---------------------------- MODULE Spec2Model ----------------------------
(***************************************************************************)
(* Session identifier manager of utils/session.ts (elaborated revision,    *)
(* src/unnamed/part_001 lines 1-300), run in several tabs of one browser.  *)
(*                                                                         *)
(* Every exported function and the channel listener is synchronous, so     *)
(* each is one atomic action.  localStorage is shared by the tabs,         *)
(* sessionStorage and the module variable memorySessionId are per tab.     *)
(* A BroadcastChannel message is queued for every other open channel       *)
(* object of the same name (those of the posting tab included) and is      *)
(* handled later, one task per receiving channel.                          *)
(*                                                                         *)
(* The model follows the module inside a browser window; the branches      *)
(* taken when typeof window === 'undefined' are outside it.                *)
(*                                                                         *)
(* Time is counted in units of 1000 ms (Date.now() / 1000), which keeps    *)
(* the 30-day window inside TLC's integers.                                *)
(*                                                                         *)
(* The components that use the identifier follow the session manager: the  *)
(* identifier each puts in its requests, and the upload / poll / render    *)
(* flow of the two upload widgets, one action per event handler, timer     *)
(* callback or response.                                                   *)
(***************************************************************************)
EXTENDS Integers, Sequences, FiniteSets

VARIABLES
    localStorage,      \* the browser's localStorage: the three SESSION_KEYS
    sessionStorage,    \* per tab: that tab's sessionStorage
    memorySessionId,   \* per tab: the module variable (line 14)
    channels,          \* per tab: number of open BroadcastChannel objects
    messages,          \* SESSION_UPDATE messages queued for a channel
    now,               \* Date.now(), in units of 1000 ms
    lsMode,            \* how localStorage behaves at the moment
    ssMode,            \* how sessionStorage behaves at the moment
    cryptoMode,        \* what the crypto object offers in this browser
    bcMode,            \* what BroadcastChannel does in this browser
    nextId,            \* number of identifiers drawn from the random source
    ticks,             \* number of clock advances so far
    observed,          \* the tab whose calls the properties follow
    last,              \* the handler that ran last: its tab and its result
    hist,              \* what the earlier calls of the observed tab returned
    widget,            \* which upload widget the page shows: "audio" or "pdf"
    isSignedIn,        \* useAuthToast().isSignedIn
    ui,                \* the widget's React state
    loops,             \* per upload: its request, interval, timer and promise
    server,            \* per file name: the status the server reports
    watch,             \* the widget event that ran last and the views shown
    validated,         \* the validateSession call that ran last, its result
    lsSessionId,       \* localStorage['sessionId'] (FileUploadComponent, chat)
    rendered,          \* the sessionId constant of each mounted component
    requests,          \* the requests the followed page has sent
    chat               \* the React state of ChatComponent and its requests

sessionVars == <<localStorage, sessionStorage, memorySessionId, channels,
                 messages, now, lsMode, ssMode, cryptoMode, bcMode, nextId,
                 ticks, observed, last, hist>>

widgetVars == <<widget, isSignedIn, ui, loops, server, watch>>

pageVars == <<validated, lsSessionId, rendered, requests, chat>>

vars == <<localStorage, sessionStorage, memorySessionId, channels, messages,
          now, lsMode, ssMode, cryptoMode, bcMode, nextId, ticks, observed,
          last, hist, widget, isSignedIn, ui, loops, server, watch,
          validated, lsSessionId, rendered, requests, chat>>

-----------------------------------------------------------------------------
(* Bounds of the model *)

MaxIds == 2
MaxTicks == 1
MaxUploads == 3
MaxInflight == 1
MaxSends == 2

Tabs == {"tab1", "tab2"}

\* The tab of a record that belongs to no tab.
NoTab == "none"

-----------------------------------------------------------------------------
(* Values *)

\* A string identifier: n stands for its random content, form for the branch
\* of generateUUID that shaped it, len for its length in characters (the
\* fewest the branch can yield: the code compares lengths from below only).
NoId == [n |-> 0, form |-> "null", len |-> 0]

\* The stored value of a key that is absent (getItem returns null).
NoTs == << >>

EmptyStorage == [PRIMARY |-> NoId, BACKUP |-> NoId, TIMESTAMP |-> NoTs]

\* Storage behaviour: "ok" every call works; "denied" every call throws
\* (access denied, privacy mode); "full" the small probe of validateStorage
\* fits but setItem of a session key throws QuotaExceededError.
StorageModes == {"ok", "denied", "full"}

Min(a, b) == IF a < b THEN a ELSE b

\* Mutant of toString: only the last digit is written.
toStringLastDigit(n) == <<n % 10>>

\* Number.prototype.toString(): the decimal digits of a non-negative integer.
RECURSIVE toString(_)
toString(n) == IF n < 10 THEN <<n>> ELSE Append(toString(n \div 10), n % 10)

\* parseInt on a string of decimal digits.
RECURSIVE parseInt(_)
parseInt(s) ==
    IF Len(s) = 1 THEN s[1]
    ELSE 10 * parseInt(SubSeq(s, 1, Len(s) - 1)) + s[Len(s)]

\* 30 * 24 * 60 * 60 * 1000 ms (line 172), in units of 1000 ms.
RetentionWindow == 30 * 24 * 60 * 60

\* sessionId.length < 10 (line 171)
MinLength == 10

-----------------------------------------------------------------------------
(* generateUUID (lines 39-75) *)

\* What the browser's crypto object offers: randomUUID; only getRandomValues;
\* neither; or a source that throws when called.
CryptoModes == {"randomUUID", "getRandomValues", "none", "throws"}

\* Lengths of the pieces the string branches are built from.
UuidLength == 36                \* crypto.randomUUID()
Base36NowLength == 8            \* Date.now().toString(36)
DecimalNowLength == 13          \* `${Date.now()}`

\* 16 bytes as two hex digits each, a '-' after bytes 4, 6, 8 and 10, cut to
\* 36 characters (lines 53-59).
HexLength == Min(36, 16 * 2 + 4)

\* `sess-${timestamp}-${random}-${fingerprintHash}`.slice(0, 50), with the
\* shortest random part (Math.random().toString(36).substring(2, 10) of 0
\* characters) and the shortest hash (1 character).
SessLength == Min(50, 5 + Base36NowLength + 1 + 0 + 1 + 1)

\* `fallback-${Date.now()}-${Math.floor(Math.random() * 1e9)}`, with the
\* shortest random part (1 digit).
FallbackLength == 9 + DecimalNowLength + 1 + 1

\* Mutant of Escapes: the try blocks are missing.
EscapesUncaught(exception) == exception

\* try { ... } catch { ... }: whether an exception raised inside the block
\* leaves it.
Escapes(exception) == FALSE

\* Mutant of generateUUID: a source that yields the same value on every draw.
generateUUIDRepeating(k) == [n |-> 1, form |-> "uuid", len |-> UuidLength]

\* Mutant of generateUUID: a source whose strings are one character short
\* of the minimum.
generateUUIDShort(k) == [n |-> k, form |-> "uuid", len |-> MinLength - 1]

\* The k-th identifier drawn in the browser.
generateUUID(k) ==
    CASE cryptoMode = "randomUUID" ->
            [n |-> k, form |-> "uuid", len |-> UuidLength]
      [] cryptoMode = "getRandomValues" ->
            [n |-> k, form |-> "hex", len |-> HexLength]
      [] cryptoMode = "none" ->
            [n |-> k, form |-> "sess", len |-> SessLength]
      [] OTHER ->
            \* the crypto call threw: the catch of line 71 (NoId stands for
            \* generateUUID itself throwing)
            IF Escapes(TRUE) THEN NoId
            ELSE [n |-> k, form |-> "fallback", len |-> FallbackLength]

-----------------------------------------------------------------------------
(* validateStorage (lines 78-91) and getAvailableStorage (lines 94-112) *)

\* The set / get / remove round trip of the probe key.
validateStorage(mode) == mode # "denied"

\* Mutant of getAvailableStorage: sessionStorage is tried first.
getAvailableStorageSessionFirst ==
    IF validateStorage(ssMode) THEN "ss"
    ELSE IF validateStorage(lsMode) THEN "ls"
    ELSE "none"

\* "ls" for localStorage, "ss" for sessionStorage, "none" for null.
getAvailableStorage ==
    IF validateStorage(lsMode) THEN "ls"
    ELSE IF validateStorage(ssMode) THEN "ss"
    ELSE "none"

\* The Storage object a handler of tab t got from getAvailableStorage.
StorageOf(t, tier) == IF tier = "ls" THEN localStorage ELSE sessionStorage[t]

\* storage.setItem of a session key throws.
SetItemThrows(tier) ==
    (tier = "ls" /\ lsMode = "full") \/ (tier = "ss" /\ ssMode = "full")

-----------------------------------------------------------------------------
(* setupSessionSync (lines 115-146) *)

\* What BroadcastChannel does: "ok"; "missing" (typeof BroadcastChannel is
\* 'undefined', line 116); "throws" (postMessage throws after the listener
\* was added, caught at line 143).
BroadcastModes == {"ok", "missing", "throws"}

\* new BroadcastChannel(...) and addEventListener (lines 119-130): the tab
\* has one more open channel object with a listener.
ChannelsAfterSync(t) ==
    IF bcMode = "missing" THEN channels
    ELSE [channels EXCEPT ![t] = @ + 1]

\* Mutant of MessagesAfterSync: postMessage is never called.
MessagesAfterSyncSilent(t, sessionId) == messages

\* channel.postMessage (lines 133-137): one SESSION_UPDATE is queued for
\* every channel object that is open at that moment, the posting one excepted.
MessagesAfterSync(t, sessionId) ==
    IF bcMode = "ok"
    THEN messages \cup
         { m \in [to : Tabs, ch : 1..MaxIds, sessionId : {sessionId}] :
             m.ch <= channels[m.to] }
    ELSE messages

-----------------------------------------------------------------------------
(* What the handlers did, kept for the properties *)

\* What the observed tab's calls returned since the page loaded:
\*   firstGet   the first getSessionId since the last refresh, clear or load
\*   quietGet   the same, since the last of those or SESSION_UPDATE delivery
\*   again      the last getSessionId came after the one quietGet records
\*   cleared    the identifier a clearSession discarded, until the second
\*              getSessionId after it
\*   reloaded   the identifier the page held when it was loaded again, until
\*              the second getSessionId after it
NoHist == [firstGet |-> NoId, quietGet |-> NoId, again |-> FALSE,
           cleared |-> NoId, reloaded |-> NoId]

\* The handler that ran last: its tab, the value it returned (for the
\* listener: the identifier of the message), whether it raised an error,
\* whether it drew a new identifier, and the primary key and timestamp a
\* getSessionId read from storage.
Call(t, op, ret, threw, gen, found, foundTs) ==
    [tab |-> t, op |-> op, ret |-> ret, threw |-> threw, gen |-> gen,
     found |-> found, foundTs |-> foundTs]

NoCall == Call(NoTab, "none", NoId, FALSE, FALSE, NoId, NoTs)

\* The environment acted (the clock): no call is the last one.
EnvStep == Call(NoTab, "env", NoId, FALSE, FALSE, NoId, NoTs)

\* hist after a handler of tab t: h when the tab is the observed one.
Remember(t, h) == IF t = observed THEN h ELSE hist

\* hist after a getSessionId of the observed tab that returned result.
AfterGet(result) ==
    IF hist.firstGet = NoId
    THEN [hist EXCEPT !.firstGet = result,
                      !.quietGet = result,
                      !.again = FALSE]
    ELSE [NoHist EXCEPT !.firstGet = hist.firstGet,
                        !.quietGet = IF hist.quietGet = NoId THEN result
                                     ELSE hist.quietGet,
                        !.again = hist.quietGet # NoId]

-----------------------------------------------------------------------------
(* getSessionId (lines 149-217) *)

\* Mutant of isMalformed: the length is not looked at.
isMalformedOnlyEmpty(sessionId) == sessionId = NoId

\* !sessionId || sessionId.length < 10 (line 171)
isMalformed(sessionId) == sessionId = NoId \/ sessionId.len < MinLength

\* Mutant of isExpired: >= in place of >.
isExpiredInclusive(timestamp) ==
    IF timestamp = NoTs THEN TRUE
    ELSE now - parseInt(timestamp) >= RetentionWindow

\* sessionAge > 30 days, sessionAge being Infinity without a timestamp
\* (lines 168, 172)
isExpired(timestamp) ==
    IF timestamp = NoTs THEN TRUE
    ELSE now - parseInt(timestamp) > RetentionWindow

\* Mutant of IsCached: the memory cache is never consulted.
IsCachedNever(t) == FALSE

\* Mutant of IsCached: the cache is consulted only when no storage is
\* available.
IsCachedWithoutStorage(t) ==
    memorySessionId[t] # NoId /\ getAvailableStorage = "none"

\* if (memorySessionId) return memorySessionId (lines 153-155)
IsCached(t) == memorySessionId[t] # NoId

\* Mutant of UpdateCache: the assignment is missing.
UpdateCacheMissing(t, sessionId) == memorySessionId

\* memorySessionId = sessionId (line 214)
UpdateCache(t, sessionId) == [memorySessionId EXCEPT ![t] = sessionId]

getSessionId(t) ==
    LET held     == memorySessionId[t]
        tier     == getAvailableStorage
        storage  == StorageOf(t, tier)
        found    == IF tier = "none" THEN NoId ELSE storage.PRIMARY
        foundTs  == IF tier = "none" THEN NoTs ELSE storage.TIMESTAMP
        rejected == found # NoId /\ (isMalformed(found) \/ isExpired(foundTs))
        kept     == IF rejected THEN NoId ELSE found
        gen      == kept = NoId
        sessionId == IF gen THEN generateUUID(nextId + 1) ELSE kept
        removed  == IF rejected
                    THEN [storage EXCEPT !.PRIMARY = NoId, !.TIMESTAMP = NoTs]
                    ELSE storage
        \* lines 192-206: setItem throws inside the try
        saveThrew == gen /\ tier # "none" /\ SetItemThrows(tier)
        threw    == gen /\ (sessionId = NoId \/ Escapes(saveThrew))
        saved    == gen /\ sessionId # NoId /\ tier # "none" /\ ~saveThrew
        written  == IF saved
                    THEN [removed EXCEPT !.PRIMARY = sessionId,
                                         !.TIMESTAMP = toString(now)]
                    ELSE removed
        backedUp == saved /\ tier = "ls" /\ ssMode = "ok"
        synced   == gen /\ ~threw
        result   == IF threw THEN NoId ELSE sessionId
    IN  /\ UNCHANGED <<now, lsMode, ssMode, cryptoMode, bcMode, ticks,
                       observed>>
        /\ IF IsCached(t)
           THEN \* lines 153-155: the cached value, nothing else is touched
                /\ last' = Call(t, "get", held, FALSE, FALSE, NoId, NoTs)
                /\ hist' = Remember(t, AfterGet(held))
                /\ UNCHANGED <<localStorage, sessionStorage, memorySessionId,
                               channels, messages, nextId>>
           ELSE /\ gen => nextId < MaxIds
                /\ localStorage' = IF tier = "ls" THEN written ELSE localStorage
                /\ sessionStorage' =
                     IF tier = "ss"
                     THEN [sessionStorage EXCEPT ![t] = written]
                     ELSE IF backedUp
                     THEN [sessionStorage EXCEPT ![t].BACKUP = sessionId]
                     ELSE sessionStorage
                /\ channels' = IF synced THEN ChannelsAfterSync(t) ELSE channels
                /\ messages' = IF synced THEN MessagesAfterSync(t, sessionId)
                               ELSE messages
                /\ memorySessionId' =
                     IF threw THEN memorySessionId
                     ELSE UpdateCache(t, sessionId)
                /\ nextId' = IF gen THEN nextId + 1 ELSE nextId
                /\ last' = Call(t, "get", result, threw, gen, found, foundTs)
                /\ hist' = Remember(t, AfterGet(result))

-----------------------------------------------------------------------------
(* sessionManager.refreshSession (lines 225-249) *)

refreshSession(t) ==
    LET tier         == getAvailableStorage
        newSessionId == generateUUID(nextId + 1)
        \* lines 235-244: setItem throws inside the try
        saveThrew    == tier # "none" /\ SetItemThrows(tier)
        threw        == newSessionId = NoId \/ Escapes(saveThrew)
        written      == IF tier # "none" /\ ~saveThrew
                        THEN [PRIMARY |-> newSessionId, BACKUP |-> NoId,
                              TIMESTAMP |-> toString(now)]
                        ELSE EmptyStorage
    IN  /\ nextId < MaxIds
        /\ memorySessionId' = [memorySessionId EXCEPT ![t] = newSessionId]
        /\ localStorage' = IF tier = "ls" THEN written ELSE localStorage
        /\ sessionStorage' = IF tier = "ss"
                             THEN [sessionStorage EXCEPT ![t] = written]
                             ELSE sessionStorage
        /\ channels' = IF threw THEN channels ELSE ChannelsAfterSync(t)
        /\ messages' = IF threw THEN messages
                       ELSE MessagesAfterSync(t, newSessionId)
        /\ nextId' = nextId + 1
        /\ last' = Call(t, "refresh", IF threw THEN NoId ELSE newSessionId,
                        threw, TRUE, NoId, NoTs)
        /\ hist' = Remember(t, NoHist)
        /\ UNCHANGED <<now, lsMode, ssMode, cryptoMode, bcMode, ticks,
                       observed>>

-----------------------------------------------------------------------------
(* sessionManager.clearSession (lines 252-267) *)

clearSession(t) ==
    LET tier  == getAvailableStorage
        found == IF tier = "none" THEN NoId ELSE StorageOf(t, tier).PRIMARY
        held  == memorySessionId[t]
    IN  /\ memorySessionId' = [memorySessionId EXCEPT ![t] = NoId]
        /\ localStorage' = IF tier = "ls" THEN EmptyStorage ELSE localStorage
        /\ sessionStorage' = IF tier = "ss"
                             THEN [sessionStorage EXCEPT ![t] = EmptyStorage]
                             ELSE sessionStorage
        /\ last' = Call(t, "clear", NoId, FALSE, FALSE, NoId, NoTs)
        /\ hist' = Remember(t,
             [NoHist EXCEPT !.cleared = IF held # NoId THEN held ELSE found])
        /\ UNCHANGED <<channels, messages, nextId, now, lsMode, ssMode,
                       cryptoMode, bcMode, ticks, observed>>

-----------------------------------------------------------------------------
(* The 'message' listener that setupSessionSync adds (lines 121-130) *)

\* Mutant of onMessage: the listener assigns the memory cache and leaves
\* the storage alone (lines 123-127 missing).
onMessageMemoryOnly(m) ==
    /\ m \in messages
    /\ messages' = messages \ {m}
    /\ memorySessionId' = [memorySessionId EXCEPT ![m.to] = m.sessionId]
    /\ last' = Call(m.to, "message", m.sessionId, FALSE, FALSE, NoId, NoTs)
    /\ hist' = Remember(m.to, [hist EXCEPT !.quietGet = NoId,
                                           !.again = FALSE])
    /\ UNCHANGED <<localStorage, sessionStorage, channels, nextId, now,
                   lsMode, ssMode, cryptoMode, bcMode, ticks, observed>>

onMessage(m) ==
    LET t       == m.to
        tier    == getAvailableStorage
        storage == StorageOf(t, tier)
        \* storage.setItem (line 125) is not inside a try: when it throws the
        \* listener ends there, before line 128.
        threw   == tier # "none" /\ SetItemThrows(tier)
        written == [storage EXCEPT !.PRIMARY = m.sessionId,
                                   !.TIMESTAMP = toString(now)]
    IN  /\ m \in messages
        /\ messages' = messages \ {m}
        /\ memorySessionId' =
             IF threw THEN memorySessionId
             ELSE [memorySessionId EXCEPT ![t] = m.sessionId]
        /\ localStorage' = IF tier = "ls" /\ ~threw THEN written
                           ELSE localStorage
        /\ sessionStorage' = IF tier = "ss" /\ ~threw
                             THEN [sessionStorage EXCEPT ![t] = written]
                             ELSE sessionStorage
        /\ last' = Call(t, "message", m.sessionId, threw, FALSE, NoId, NoTs)
        /\ hist' = Remember(t, [hist EXCEPT !.quietGet = NoId,
                                            !.again = FALSE])
        /\ UNCHANGED <<channels, nextId, now, lsMode, ssMode, cryptoMode,
                       bcMode, ticks, observed>>

-----------------------------------------------------------------------------
(* The page around the module *)

\* The tab loads the page again: the module is evaluated anew (line 14), the
\* 'beforeunload' listeners close the tab's channels (lines 140-142), both
\* storages keep their content.
Reload(t) ==
    /\ memorySessionId' = [memorySessionId EXCEPT ![t] = NoId]
    /\ channels' = [channels EXCEPT ![t] = 0]
    /\ messages' = { m \in messages : m.to # t }
    /\ last' = Call(t, "reload", NoId, FALSE, FALSE, NoId, NoTs)
    /\ hist' = Remember(t, [NoHist EXCEPT !.reloaded = memorySessionId[t]])
    /\ UNCHANGED <<localStorage, sessionStorage, nextId, now, lsMode, ssMode,
                   cryptoMode, bcMode, ticks, observed>>

\* Date.now() advances: by the retention window, or by one unit more.
Tick ==
    \E d \in {RetentionWindow, RetentionWindow + 1} :
      /\ ticks < MaxTicks
      /\ ticks' = ticks + 1
      /\ now' = now + d
      /\ last' = EnvStep
      /\ UNCHANGED <<localStorage, sessionStorage, memorySessionId, channels,
                     messages, lsMode, ssMode, cryptoMode, bcMode, nextId,
                     observed, hist>>

-----------------------------------------------------------------------------
(* sessionManager.validateSession (lines 270-279) *)

\* The value getSessionId returns outside a browser window (line 150).
ServerDefault == [n |-> 0, form |-> "server-default", len |-> 14]

\* No validateSession call is the handler that ran last.
NoValidation == [tab |-> NoTab, result |-> FALSE]

\* Mutant of isUsable: the length is compared the wrong way.
isUsableShort(sessionId) ==
    /\ sessionId # NoId
    /\ sessionId # ServerDefault
    /\ sessionId.len <= MinLength

\* !!sessionId && sessionId !== 'server-default' && sessionId.length >= 10
\* (line 275)
isUsable(sessionId) ==
    /\ sessionId # NoId
    /\ sessionId # ServerDefault
    /\ sessionId.len >= MinLength

\* try { getSessionId() ... } catch { return false } (lines 273-278)
validateSession(t) ==
    /\ getSessionId(t)
    /\ validated' = [tab |-> t,
                     result |-> IF last'.threw THEN FALSE
                                ELSE isUsable(last'.ret)]
    /\ UNCHANGED <<widgetVars, lsSessionId, rendered, requests, chat>>

-----------------------------------------------------------------------------
(* The session identifier the components put in their requests:            *)
(* AudioUploadComponent.tsx line 32, FileUploadComponent (part_001 lines   *)
(* 321-332), chat.tsx line 42.  The components of the observed tab's page  *)
(* are followed.                                                           *)

\* The placeholder of chat.tsx line 42.
DefaultId == [n |-> 0, form |-> "default", len |-> 7]

\* No component has rendered yet.
NotRendered == [audio |-> NoId, pdf |-> NoId]

\* fetch(...) with the identifier in the x-session-id header or in the
\* sessionId query parameter.
Send(kind, sessionId) ==
    /\ requests' = requests \cup {[kind |-> kind, sessionId |-> sessionId]}
    /\ UNCHANGED <<sessionVars, widgetVars, validated, lsSessionId, rendered,
                   chat>>

\* AudioUploadComponent renders: const sessionId =
\* sessionManager.getSessionId() (line 32).
AudioRender ==
    /\ getSessionId(observed)
    /\ rendered' = [rendered EXCEPT !.audio = last'.ret]
    /\ UNCHANGED <<widgetVars, validated, lsSessionId, requests, chat>>

\* FileUploadComponent renders: its own getSessionId (part_001 lines
\* 321-332) reads localStorage['sessionId'] and, finding nothing, stores a
\* crypto.randomUUID() there.
PdfRender ==
    LET drawn     == lsSessionId = NoId
        sessionId == IF drawn
                     THEN [n |-> nextId + 1, form |-> "uuid",
                           len |-> UuidLength]
                     ELSE lsSessionId
    IN  /\ drawn => nextId < MaxIds
        /\ lsSessionId' = sessionId
        /\ nextId' = IF drawn THEN nextId + 1 ELSE nextId
        /\ rendered' = [rendered EXCEPT !.pdf = sessionId]
        /\ UNCHANGED <<localStorage, sessionStorage, memorySessionId,
                       channels, messages, now, lsMode, ssMode, cryptoMode,
                       bcMode, ticks, observed, last, hist>>
        /\ UNCHANGED <<widgetVars, validated, requests, chat>>

\* POST /upload/audio with 'x-session-id': sessionId
\* (AudioUploadComponent.tsx lines 157-163)
AudioUploadRequest ==
    /\ rendered.audio # NoId
    /\ Send("audio upload", rendered.audio)

\* GET /audio/status?sessionId=... (AudioUploadComponent.tsx lines 42-44)
AudioStatusRequest ==
    /\ rendered.audio # NoId
    /\ Send("audio status", rendered.audio)

\* POST /upload/pdf with 'x-session-id': sessionId (part_001 lines 409-415)
PdfUploadRequest ==
    /\ rendered.pdf # NoId
    /\ Send("pdf upload", rendered.pdf)

\* GET /pdf/status?sessionId=... (part_001 lines 339-341)
PdfStatusRequest ==
    /\ rendered.pdf # NoId
    /\ Send("pdf status", rendered.pdf)

-----------------------------------------------------------------------------
(* ChatComponent (chat.tsx)                                                *)

\* What the user may have typed: nothing, blanks, a text, a text in blanks.
Inputs == {"", "  ", "hi", " hi "}

\* String.prototype.trim() on those.
trim(str) == CASE str = "  " -> ""
               [] str = " hi " -> "hi"
               [] OTHER -> str

\* The texts of the assistant's entries: data.message, the fallback of
\* line 50 and the error text of line 54.
ResponseText == "response"
FallbackText == "Sorry, I could not generate a response."
ErrorText == "Sorry, something went wrong. Please try again."

\* The React state after mounting (lines 13-15): no request is in flight and
\* no handler has run.
InitialChat ==
    [messages |-> << >>, input |-> "", isLoading |-> FALSE, inflight |-> 0,
     evt |-> "none"]

\* onChange of the input, which is disabled while loading (lines 210-214).
setInput(value) ==
    /\ ~chat.isLoading
    /\ chat' = [chat EXCEPT !.input = value, !.evt = "setInput"]
    /\ UNCHANGED <<sessionVars, widgetVars, validated, lsSessionId, rendered,
                   requests>>

\* Mutant of handleSend: the guard of line 31 is missing.
handleSendUnguarded ==
    /\ Len(chat.messages) < 2 * MaxSends
    /\ IF ~isSignedIn
       THEN chat' = [chat EXCEPT !.evt = "showAuthToast"] /\ UNCHANGED requests
       ELSE /\ chat' = [chat EXCEPT
                          !.messages = Append(@, [role |-> "user",
                                                  content |-> chat.input]),
                          !.input = "", !.isLoading = TRUE,
                          !.inflight = @ + 1, !.evt = "sent"]
            /\ requests' = requests \cup
                 {[kind |-> "chat",
                   sessionId |-> IF lsSessionId = NoId THEN DefaultId
                                 ELSE lsSessionId]}
    /\ UNCHANGED <<sessionVars, widgetVars, validated, lsSessionId, rendered>>

\* Mutant of handleSend: the signed-in check of lines 32-35 is missing.
handleSendUngated ==
    /\ Len(chat.messages) < 2 * MaxSends
    /\ IF trim(chat.input) = "" \/ chat.isLoading
       THEN chat' = [chat EXCEPT !.evt = "ignored"] /\ UNCHANGED requests
       ELSE /\ chat' = [chat EXCEPT
                          !.messages = Append(@, [role |-> "user",
                                                  content |-> chat.input]),
                          !.input = "", !.isLoading = TRUE,
                          !.inflight = @ + 1, !.evt = "sent"]
            /\ requests' = requests \cup
                 {[kind |-> "chat",
                   sessionId |-> IF lsSessionId = NoId THEN DefaultId
                                 ELSE lsSessionId]}
    /\ UNCHANGED <<sessionVars, widgetVars, validated, lsSessionId, rendered>>

\* Mutant of handleSend: the message is not appended before the request.
handleSendSilent ==
    /\ Len(chat.messages) < 2 * MaxSends
    /\ IF trim(chat.input) = "" \/ chat.isLoading
       THEN chat' = [chat EXCEPT !.evt = "ignored"] /\ UNCHANGED requests
       ELSE IF ~isSignedIn
       THEN chat' = [chat EXCEPT !.evt = "showAuthToast"]
            /\ UNCHANGED requests
       ELSE /\ chat' = [chat EXCEPT !.input = "", !.isLoading = TRUE,
                                    !.inflight = @ + 1, !.evt = "sent"]
            /\ requests' = requests \cup
                 {[kind |-> "chat",
                   sessionId |-> IF lsSessionId = NoId THEN DefaultId
                                 ELSE lsSessionId]}
    /\ UNCHANGED <<sessionVars, widgetVars, validated, lsSessionId, rendered>>

\* handleSend (lines 30-48), called by the send button and by the Enter key
\* (lines 61-66): blank input or a request in progress ends it at line 31,
\* a signed-out user gets the notification (lines 32-35), otherwise the
\* user's message is appended, the input emptied, isLoading set and the
\* chat request sent with localStorage.getItem('sessionId') || 'default'.
handleSend ==
    /\ Len(chat.messages) < 2 * MaxSends
    /\ IF trim(chat.input) = "" \/ chat.isLoading
       THEN chat' = [chat EXCEPT !.evt = "ignored"] /\ UNCHANGED requests
       ELSE IF ~isSignedIn
       THEN chat' = [chat EXCEPT !.evt = "showAuthToast"]
            /\ UNCHANGED requests
       ELSE /\ chat' = [chat EXCEPT
                          !.messages = Append(@, [role |-> "user",
                                                  content |-> chat.input]),
                          !.input = "", !.isLoading = TRUE,
                          !.inflight = @ + 1, !.evt = "sent"]
            /\ requests' = requests \cup
                 {[kind |-> "chat",
                   sessionId |-> IF lsSessionId = NoId THEN DefaultId
                                 ELSE lsSessionId]}
    /\ UNCHANGED <<sessionVars, widgetVars, validated, lsSessionId, rendered>>

\* handleSend after its fetch settled (lines 49-58): the response holds a
\* message, holds none, or the request or its decoding failed; finally
\* isLoading is reset.
ChatResponse(outcome) ==
    /\ chat.inflight > 0
    /\ chat' = [chat EXCEPT
                  !.messages = Append(@,
                     [role |-> "bot",
                      content |-> CASE outcome = "message" -> ResponseText
                                    [] outcome = "empty" -> FallbackText
                                    [] OTHER -> ErrorText]),
                  !.isLoading = FALSE,
                  !.inflight = @ - 1,
                  !.evt = "response"]
    /\ UNCHANGED <<sessionVars, widgetVars, validated, lsSessionId, rendered,
                   requests>>

\* Clerk reports that the user signed in.
SignIn ==
    /\ ~isSignedIn
    /\ isSignedIn' = TRUE
    /\ UNCHANGED <<widget, ui, loops, server, watch>>
    /\ UNCHANGED <<sessionVars, pageVars>>

-----------------------------------------------------------------------------
(* Upload widgets: AudioUploadComponent.tsx and FileUploadComponent         *)
(* (src/unnamed/part_001 lines 301-555).                                   *)
(*                                                                         *)
(* Each timer callback and each continuation after an await runs to its    *)
(* end before anything else does, so each is one action; the catch block   *)
(* that a rejected promise wakes runs in the same task and is part of the  *)
(* action that rejects.  Timers are not measured: an interval may tick     *)
(* and a ceiling timer may fire at any moment after they were started.     *)

\* The names of the files the user may select; the first one selected is
\* called "a".
FileNames == {"a", "b"}

\* uploadedAudio / uploadedFile === null
NoFile == "none"

\* The values of errorMessage.
NoMessage == ""
ProcessingFailedMessage ==
    "Audio processing failed. Please try again with a different file."
TimeoutMessage == "Processing timeout. Please try again."
UploadFailedMessage == "Upload failed. Please try again."
GenericMessage == "Upload or processing failed. Please try again."

\* The React state after mounting (useState initial values).
InitialUi ==
    [file |-> NoFile, isUploading |-> FALSE, isUploaded |-> FALSE,
     isProcessing |-> FALSE, isFailed |-> FALSE, errorMessage |-> NoMessage]

\* One upload: the file posted, the name its polls look for, the stage of
\* its request and interval, its promise, its ceiling timer, its status
\* requests in flight, and whether one of its polls met ready or failed.
NoLoop ==
    [file |-> NoFile, match |-> NoFile, stage |-> "unused", settled |-> FALSE,
     ceiling |-> "none", inflight |-> 0, terminal |-> FALSE]

Uploads == 1 .. MaxUploads

Started == {k \in Uploads : loops[k].stage # "unused"}

\* The blocks of the audio widget that render in React state u
\* (AudioUploadComponent.tsx lines 220, 243, 265, 288, 320).
AudioView(u) ==
    { b \in {"idle", "uploading", "processing", "ready", "failed"} :
        \/ b = "idle" /\ ~u.isUploaded /\ ~u.isUploading
                      /\ ~u.isProcessing /\ ~u.isFailed
        \/ b = "uploading" /\ u.isUploading
        \/ b = "processing" /\ u.isProcessing /\ ~u.isUploaded /\ ~u.isFailed
        \/ b = "ready" /\ u.isUploaded /\ u.file # NoFile
        \/ b = "failed" /\ u.isFailed /\ u.file # NoFile }

\* The blocks of the PDF widget that render in React state u (part_001
\* lines 459, 482, 499, 522); it has no failed block.
PdfView(u) ==
    { b \in {"idle", "uploading", "processing", "ready"} :
        \/ b = "idle" /\ ~u.isUploaded /\ ~u.isUploading /\ ~u.isProcessing
        \/ b = "uploading" /\ u.isUploading
        \/ b = "processing" /\ u.isProcessing /\ ~u.isUploaded
        \/ b = "ready" /\ u.isUploaded /\ u.file # NoFile }

ViewOf(u) == IF widget = "audio" THEN AudioView(u) ELSE PdfView(u)

\* What is followed of the widget: the event that ran last (its kind, its
\* upload, the status it carried), the upload the user made last, how far
\* that upload is along "posted, reported processing twice, then ready",
\* the views shown since the file was selected, and how that upload ended.
NoWatch ==
    [evt |-> [kind |-> "none", k |-> 0, r |-> "none"], cur |-> 0,
     scen |-> "none", trace |-> << >>, outcome |-> "none"]

Last(seq) == seq[Len(seq)]

Watch(kind, k, r, scen, outcome, u) ==
    [evt     |-> [kind |-> kind, k |-> k, r |-> r],
     cur     |-> watch.cur,
     scen    |-> scen,
     trace   |-> IF scen = "none" THEN << >>
                 ELSE IF ViewOf(u) # Last(watch.trace)
                      THEN Append(watch.trace, ViewOf(u))
                      ELSE watch.trace,
     outcome |-> outcome]

\* The scenario after an event of upload k that leaves it (any event of the
\* user's last upload but the reports the scenario names), and after one
\* that does not concern it (an event of an earlier upload).
Leaves(k) == IF k = watch.cur \/ watch.scen = "ready" THEN "none" ELSE watch.scen
Ends(k, how) ==
    IF k = watch.cur /\ watch.outcome = "none" THEN how ELSE watch.outcome

\* The scenario after a poll of upload k was told status r of the file it
\* uploaded.
Reported(k, r) ==
    IF k # watch.cur THEN Leaves(k)
    ELSE CASE r = "processing" /\ watch.scen = "p0" -> "p1"
           [] r = "processing" /\ watch.scen = "p1" -> "p2"
           [] r = "ready" /\ watch.scen = "p2" -> "ready"
           [] OTHER -> "none"

\* Mutant of clearInterval: the interval is left running.
clearIntervalMissing(stage) == stage

\* clearInterval(interval)
clearInterval(stage) == IF stage = "polling" THEN "cleared" ELSE stage

\* The status that a response built from the server's table holds for a
\* file name: files.find(f => f.filename === name).
Find(name) == IF name = NoFile THEN "absent" ELSE server[name]

Responses == {"absent", "processing", "ready", "failed", "error"}

\* The upload that a file selection starts: the next unused one.
NextUpload == Cardinality(Started) + 1

\* setInterval callback up to its fetch (AudioUploadComponent.tsx lines
\* 37-44, part_001 lines 337-341): one status request leaves.
IntervalTick(k) ==
    /\ loops[k].stage = "polling"
    /\ loops[k].inflight < MaxInflight
    /\ loops' = [loops EXCEPT ![k].inflight = @ + 1]
    /\ UNCHANGED <<widget, isSignedIn, ui, server, watch>>
    /\ UNCHANGED <<sessionVars, pageVars>>

\* The server ends the processing of a file.
ServerFinish(f, s) ==
    /\ server[f] = "processing"
    /\ server' = [server EXCEPT ![f] = s]
    /\ UNCHANGED <<widget, isSignedIn, ui, loops, watch>>
    /\ UNCHANGED <<sessionVars, pageVars>>

(* AudioUploadComponent.tsx *)

\* catch (err) of the change handler (lines 187-192), entered when the
\* awaited fetch or waitUntilProcessed rejects.
AudioCatch(u) ==
    [u EXCEPT !.isUploading = FALSE, !.isFailed = TRUE,
              !.errorMessage = GenericMessage]

\* showAuthToast(...) in place of the file chooser (lines 103-106, part_001
\* lines 390-393): the notification is all that happens.
RefuseSignedOut ==
    /\ ~isSignedIn
    /\ watch' = [watch EXCEPT
                   !.evt = [kind |-> "showAuthToast", k |-> 0, r |-> "none"]]
    /\ UNCHANGED <<widget, isSignedIn, ui, loops, server>>
    /\ UNCHANGED <<sessionVars, pageVars>>

\* onClick guard (line 217), handleFileUploadButtonClick and the change
\* handler up to its fetch (lines 102-163), for a valid audio file f; a
\* signed-out user is refused at line 103.
AudioSelectFile(f) ==
    /\ widget = "audio"
    /\ "idle" \in AudioView(ui)
    /\ \/ RefuseSignedOut
       \/ /\ isSignedIn
          /\ NextUpload <= MaxUploads
          /\ NextUpload = 1 => f = "a"
          /\ ui' = [file |-> f, isUploading |-> TRUE, isUploaded |-> FALSE,
                    isProcessing |-> FALSE, isFailed |-> FALSE,
                    errorMessage |-> NoMessage]
          /\ loops' = [loops EXCEPT ![NextUpload] =
                         [NoLoop EXCEPT !.file = f, !.match = f, !.stage = "posting"]]
          /\ watch' = [evt |-> [kind |-> "select", k |-> NextUpload, r |-> "none"],
                       cur |-> NextUpload, scen |-> "sel",
                       trace |-> <<AudioView(ui), AudioView(ui')>>,
                       outcome |-> "none"]
          /\ UNCHANGED <<widget, isSignedIn, server>>
          /\ UNCHANGED <<sessionVars, pageVars>>

\* The change handler after its fetch settled (lines 165-192): the upload
\* was accepted (res.ok), refused, or the fetch threw.  An accepted upload
\* starts waitUntilProcessed: its interval and its ceiling timer.
AudioUploadResponse(k, res) ==
    LET L == loops[k]
    IN  /\ widget = "audio"
        /\ L.stage = "posting"
        /\ ui' = CASE res = "ok" ->
                        [ui EXCEPT !.isUploading = FALSE, !.isProcessing = TRUE]
                   [] res = "refused" ->
                        [ui EXCEPT !.isUploading = FALSE, !.isFailed = TRUE,
                                   !.errorMessage = UploadFailedMessage]
                   [] OTHER -> AudioCatch(ui)
        /\ loops' = [loops EXCEPT ![k] =
                       IF res = "ok"
                       THEN [L EXCEPT !.stage = "polling", !.ceiling = "armed"]
                       ELSE [L EXCEPT !.stage = "rejected"]]
        /\ server' = IF res = "ok"
                     THEN [server EXCEPT ![L.file] = "processing"]
                     ELSE server
        /\ watch' = Watch("uploadResponse", k, res,
                          IF k = watch.cur /\ watch.scen = "sel" /\ res = "ok"
                          THEN "p0" ELSE Leaves(k),
                          Ends(k, IF res = "ok" THEN "none" ELSE res), ui')
        /\ UNCHANGED <<widget, isSignedIn>>
        /\ UNCHANGED <<sessionVars, pageVars>>

\* Mutant of AudioPollResponse: a failed status request ends the loop, as
\* the catch block of FileUploadComponent does.
AudioPollResponseStopsOnError(k, r) ==
    LET L      == loops[k]
        ends   == r \in {"ready", "failed"}
        stops  == ends \/ r = "error"
        failed == [ui EXCEPT !.isProcessing = FALSE, !.isUploaded = FALSE,
                             !.isFailed = TRUE,
                             !.errorMessage = ProcessingFailedMessage]
    IN  /\ widget = "audio"
        /\ L.inflight > 0
        /\ r \in {"error", Find(L.match)}
        /\ ui' = CASE r = "ready" ->
                        [ui EXCEPT !.isProcessing = FALSE, !.isUploaded = TRUE,
                                   !.isFailed = FALSE]
                   [] r = "failed" ->
                        IF L.settled THEN failed ELSE AudioCatch(failed)
                   [] r = "error" ->
                        [ui EXCEPT !.isProcessing = FALSE]
                   [] OTHER -> ui
        /\ loops' = [loops EXCEPT ![k] =
                       [L EXCEPT !.inflight = @ - 1,
                                 !.stage = IF stops THEN clearInterval(@) ELSE @,
                                 !.settled = @ \/ stops,
                                 !.terminal = @ \/ ends]]
        /\ watch' = Watch("pollResponse", k, r, Reported(k, r),
                          Ends(k, IF ends THEN r ELSE "none"), ui')
        /\ UNCHANGED <<widget, isSignedIn, server>>
        /\ UNCHANGED <<sessionVars, pageVars>>

\* setInterval callback after its fetch settled (lines 46-86): r is the
\* status found for the file name, or "error" when the request failed.
AudioPollResponse(k, r) ==
    LET L      == loops[k]
        ends   == r \in {"ready", "failed"}
        failed == [ui EXCEPT !.isProcessing = FALSE, !.isUploaded = FALSE,
                             !.isFailed = TRUE,
                             !.errorMessage = ProcessingFailedMessage]
    IN  /\ widget = "audio"
        /\ L.inflight > 0
        /\ r \in {"error", Find(L.match)}
        /\ ui' = CASE r = "ready" ->
                        [ui EXCEPT !.isProcessing = FALSE, !.isUploaded = TRUE,
                                   !.isFailed = FALSE]
                   [] r = "failed" ->
                        IF L.settled THEN failed ELSE AudioCatch(failed)
                   [] OTHER -> ui
        /\ loops' = [loops EXCEPT ![k] =
                       [L EXCEPT !.inflight = @ - 1,
                                 !.stage = IF ends THEN clearInterval(@) ELSE @,
                                 !.settled = @ \/ ends,
                                 !.terminal = @ \/ ends]]
        /\ watch' = Watch("pollResponse", k, r, Reported(k, r),
                          Ends(k, IF ends THEN r ELSE "none"), ui')
        /\ UNCHANGED <<widget, isSignedIn, server>>
        /\ UNCHANGED <<sessionVars, pageVars>>

\* setTimeout callback of waitUntilProcessed (lines 90-98).
AudioCeiling(k) ==
    LET L       == loops[k]
        timeout == [ui EXCEPT !.isProcessing = FALSE, !.isUploaded = FALSE,
                              !.isFailed = TRUE,
                              !.errorMessage = TimeoutMessage]
    IN  /\ widget = "audio"
        /\ L.ceiling = "armed"
        /\ ui' = IF L.settled THEN timeout ELSE AudioCatch(timeout)
        /\ loops' = [loops EXCEPT ![k] =
                       [L EXCEPT !.ceiling = "fired",
                                 !.stage = clearInterval(@),
                                 !.settled = TRUE]]
        /\ watch' = Watch("ceiling", k, "none", Leaves(k),
                          Ends(k, "timeout"), ui')
        /\ UNCHANGED <<widget, isSignedIn, server>>
        /\ UNCHANGED <<sessionVars, pageVars>>

\* handleRemoveAudio (lines 199-206), behind 'Upload New' (line 309) and
\* 'Try Again' (line 341).
handleRemoveAudio ==
    /\ widget = "audio"
    /\ AudioView(ui) \cap {"ready", "failed"} # {}
    /\ ui' = [ui EXCEPT !.file = NoFile, !.isUploaded = FALSE,
                        !.isProcessing = FALSE, !.isFailed = FALSE,
                        !.errorMessage = NoMessage]
    /\ watch' = [NoWatch EXCEPT !.evt.kind = "remove"]
    /\ UNCHANGED <<widget, isSignedIn, loops, server>>
    /\ UNCHANGED <<sessionVars, pageVars>>

(* FileUploadComponent, src/unnamed/part_001 lines 301-555 *)

\* catch (err) of the change handler (lines 430-433).
PdfCatch(u) == [u EXCEPT !.isUploading = FALSE]

\* onClick guard (line 456), handleFileUploadButtonClick and the change
\* handler up to its fetch (lines 389-415).  The handler belongs to the
\* render in which the click happened: the waitUntilProcessed it will call
\* reads that render's uploadedFile (line 351).
PdfSelectFile(f) ==
    /\ widget = "pdf"
    /\ "idle" \in PdfView(ui)
    /\ \/ RefuseSignedOut
       \/ /\ isSignedIn
          /\ NextUpload <= MaxUploads
          /\ NextUpload = 1 => f = "a"
          /\ ui' = [ui EXCEPT !.isUploading = TRUE, !.isUploaded = FALSE,
                              !.isProcessing = FALSE]
          /\ loops' = [loops EXCEPT ![NextUpload] =
                         [NoLoop EXCEPT !.file = f, !.match = ui.file,
                                        !.stage = "posting"]]
          /\ watch' = [evt |-> [kind |-> "select", k |-> NextUpload, r |-> "none"],
                       cur |-> NextUpload, scen |-> "sel",
                       trace |-> <<PdfView(ui), PdfView(ui')>>,
                       outcome |-> "none"]
          /\ UNCHANGED <<widget, isSignedIn, server>>
          /\ UNCHANGED <<sessionVars, pageVars>>

\* The change handler after its fetch settled (lines 417-433).
PdfUploadResponse(k, res) ==
    LET L == loops[k]
    IN  /\ widget = "pdf"
        /\ L.stage = "posting"
        /\ ui' = IF res = "ok"
                 THEN [ui EXCEPT !.file = L.file, !.isUploading = FALSE,
                                 !.isProcessing = TRUE]
                 ELSE [ui EXCEPT !.isUploading = FALSE]
        /\ loops' = [loops EXCEPT ![k] =
                       IF res = "ok"
                       THEN [L EXCEPT !.stage = "polling", !.ceiling = "armed"]
                       ELSE [L EXCEPT !.stage = "rejected"]]
        /\ server' = IF res = "ok"
                     THEN [server EXCEPT ![L.file] = "processing"]
                     ELSE server
        /\ watch' = Watch("uploadResponse", k, res,
                          IF k = watch.cur /\ watch.scen = "sel" /\ res = "ok"
                          THEN "p0" ELSE Leaves(k),
                          Ends(k, IF res = "ok" THEN "none" ELSE res), ui')
        /\ UNCHANGED <<widget, isSignedIn>>
        /\ UNCHANGED <<sessionVars, pageVars>>

\* setInterval callback after its fetch settled (lines 343-376): the
\* response holds the server's table, or the request failed (error).
PdfPollResponse(k, error) ==
    LET L      == loops[k]
        r      == IF error THEN "error" ELSE Find(L.match)
        told   == IF error THEN "error" ELSE Find(L.file)
        ends   == r \in {"ready", "failed", "error"}
        failed == [ui EXCEPT !.isProcessing = FALSE, !.isUploaded = FALSE]
    IN  /\ widget = "pdf"
        /\ L.inflight > 0
        /\ ui' = CASE r = "ready" ->
                        [ui EXCEPT !.isProcessing = FALSE, !.isUploaded = TRUE]
                   [] r \in {"failed", "error"} ->
                        IF L.settled THEN failed ELSE PdfCatch(failed)
                   [] OTHER -> ui
        /\ loops' = [loops EXCEPT ![k] =
                       [L EXCEPT !.inflight = @ - 1,
                                 !.stage = IF ends THEN clearInterval(@) ELSE @,
                                 !.settled = @ \/ ends,
                                 !.terminal = @ \/ r \in {"ready", "failed"}]]
        /\ watch' = Watch("pollResponse", k, told, Reported(k, told),
                          Ends(k, IF told \in {"ready", "failed", "error"}
                                  THEN told ELSE "none"), ui')
        /\ UNCHANGED <<widget, isSignedIn, server>>
        /\ UNCHANGED <<sessionVars, pageVars>>

\* setTimeout callback of waitUntilProcessed (lines 380-385).
PdfCeiling(k) ==
    LET L       == loops[k]
        timeout == [ui EXCEPT !.isProcessing = FALSE, !.isUploaded = FALSE]
    IN  /\ widget = "pdf"
        /\ L.ceiling = "armed"
        /\ ui' = IF L.settled THEN timeout ELSE PdfCatch(timeout)
        /\ loops' = [loops EXCEPT ![k] =
                       [L EXCEPT !.ceiling = "fired",
                                 !.stage = clearInterval(@),
                                 !.settled = TRUE]]
        /\ watch' = Watch("ceiling", k, "none", Leaves(k),
                          Ends(k, "timeout"), ui')
        /\ UNCHANGED <<widget, isSignedIn, server>>
        /\ UNCHANGED <<sessionVars, pageVars>>

\* handleRemoveFile (lines 441-445), behind 'Upload New' (line 543).
handleRemoveFile ==
    /\ widget = "pdf"
    /\ "ready" \in PdfView(ui)
    /\ ui' = [ui EXCEPT !.file = NoFile, !.isUploaded = FALSE,
                        !.isProcessing = FALSE]
    /\ watch' = [NoWatch EXCEPT !.evt.kind = "remove"]
    /\ UNCHANGED <<widget, isSignedIn, loops, server>>
    /\ UNCHANGED <<sessionVars, pageVars>>

-----------------------------------------------------------------------------
(* The specification *)

\* Identifiers that localStorage may hold when the first page loads, written
\* before this module ran: one the simple revision of getSessionId wrote
\* (src/unnamed/part_000 line 11, no timestamp key), and a malformed one.
LegacyId == [n |-> 0, form |-> "uuid", len |-> UuidLength]
ShortId == [n |-> 0, form |-> "foreign", len |-> MinLength - 1]

\* getSessionId of the simple revision (src/unnamed/part_000 lines 2-14)
\* in a browser with crypto.randomUUID: localStorage after the call.  The
\* stored identifier is kept; when there is none a UUID is stored under
\* 'pdfrag_session_id', and no other key is written.
getSessionIdSimple(storage) ==
    IF storage.PRIMARY # NoId THEN storage
    ELSE [storage EXCEPT !.PRIMARY = LegacyId]

InitialStorages ==
    { EmptyStorage,
      [EmptyStorage EXCEPT !.PRIMARY = LegacyId],
      [EmptyStorage EXCEPT !.PRIMARY = ShortId, !.TIMESTAMP = toString(0)] }

\* The state when the first tab opens the page, but for the storage content
\* and the browser's behaviour.
Start ==
    /\ sessionStorage = [t \in Tabs |-> EmptyStorage]
    /\ memorySessionId = [t \in Tabs |-> NoId]
    /\ channels = [t \in Tabs |-> 0]
    /\ messages = {}
    /\ now = 0
    /\ nextId = 0
    /\ ticks = 0
    /\ last = NoCall
    /\ hist = NoHist
    /\ validated = NoValidation
    /\ lsSessionId = NoId
    /\ rendered = NotRendered
    /\ requests = {}
    /\ chat = InitialChat

\* No upload widget is followed.
NoWidget ==
    /\ widget = "none"
    /\ isSignedIn = FALSE
    /\ ui = InitialUi
    /\ loops = [k \in Uploads |-> NoLoop]
    /\ server = [f \in FileNames |-> "absent"]
    /\ watch = NoWatch

\* Spec: the tabs of a browser of any behaviour (storage, crypto, broadcast)
\* calling the session manager in any order; the clock stands still.
Init ==
    /\ Start
    /\ NoWidget
    /\ localStorage = EmptyStorage
    /\ lsMode \in StorageModes
    /\ ssMode \in StorageModes
    /\ cryptoMode \in CryptoModes
    /\ bcMode \in BroadcastModes
    /\ observed \in Tabs

Next ==
    \/ \E t \in Tabs : getSessionId(t) /\ UNCHANGED <<widgetVars, pageVars>>
    \/ \E t \in Tabs : refreshSession(t) /\ UNCHANGED <<widgetVars, pageVars>>
    \/ \E t \in Tabs : clearSession(t) /\ UNCHANGED <<widgetVars, pageVars>>
    \/ \E m \in messages : onMessage(m) /\ UNCHANGED <<widgetVars, pageVars>>
    \/ \E t \in Tabs : Reload(t) /\ UNCHANGED <<widgetVars, pageVars>>

Spec == Init /\ [][Next]_vars

\* SpecExpiry: the same calls while the clock advances, in a browser of any
\* storage behaviour whose crypto.randomUUID and BroadcastChannel work,
\* starting from any of the initial storage contents; no tab's history is
\* followed.
InitExpiry ==
    /\ Start
    /\ NoWidget
    /\ localStorage \in InitialStorages
    /\ lsMode \in StorageModes
    /\ ssMode \in StorageModes
    /\ cryptoMode = "randomUUID"
    /\ bcMode = "ok"
    /\ observed = NoTab

NextExpiry ==
    \/ Next
    \/ Tick /\ UNCHANGED <<widgetVars, pageVars>>

SpecExpiry == InitExpiry /\ [][NextExpiry]_vars

\* SpecReload: the calls of SpecExpiry while the clock advances, in a
\* browser that opens the page for the first time (nothing stored yet); the
\* calls of the first tab are followed across its page loads.
InitReload ==
    /\ Start
    /\ NoWidget
    /\ localStorage = EmptyStorage
    /\ lsMode \in StorageModes
    /\ ssMode \in StorageModes
    /\ cryptoMode = "randomUUID"
    /\ bcMode = "ok"
    /\ observed = "tab1"

SpecReload == InitReload /\ [][NextExpiry]_vars

\* SpecValidate: the tabs of a browser of any storage and crypto behaviour
\* calling the session manager, validateSession included, in any order.
InitValidate ==
    /\ Start
    /\ NoWidget
    /\ localStorage \in InitialStorages
    /\ lsMode \in StorageModes
    /\ ssMode \in StorageModes
    /\ cryptoMode \in CryptoModes
    /\ bcMode = "ok"
    /\ observed = NoTab

\* A handler other than validateSession ran.
NotValidate ==
    /\ validated' = NoValidation
    /\ UNCHANGED <<widgetVars, lsSessionId, rendered, requests, chat>>

NextValidate ==
    \/ \E t \in Tabs : validateSession(t)
    \/ \E t \in Tabs : getSessionId(t) /\ NotValidate
    \/ \E t \in Tabs : refreshSession(t) /\ NotValidate
    \/ \E t \in Tabs : clearSession(t) /\ NotValidate
    \/ \E m \in messages : onMessage(m) /\ NotValidate
    \/ \E t \in Tabs : Reload(t) /\ NotValidate

SpecValidate == InitValidate /\ [][NextValidate]_vars

\* SpecRequests: one page of a browser where everything works; its
\* components render and send their requests in any order.
InitRequests ==
    /\ Start
    /\ widget = "none"
    /\ isSignedIn = TRUE
    /\ ui = InitialUi
    /\ loops = [k \in Uploads |-> NoLoop]
    /\ server = [f \in FileNames |-> "absent"]
    /\ watch = NoWatch
    /\ localStorage = EmptyStorage
    /\ lsMode = "ok"
    /\ ssMode = "ok"
    /\ cryptoMode = "randomUUID"
    /\ bcMode = "ok"
    /\ observed = "tab1"

NextRequests ==
    \/ AudioRender
    \/ PdfRender
    \/ AudioUploadRequest
    \/ AudioStatusRequest
    \/ PdfUploadRequest
    \/ PdfStatusRequest
    \/ \E value \in Inputs : setInput(value)
    \/ handleSend
    \/ \E outcome \in {"message", "empty", "error"} : ChatResponse(outcome)

SpecRequests == InitRequests /\ [][NextRequests]_vars

\* SpecChat: one page with ChatComponent and one upload widget; the user
\* types, sends, clicks the upload zone and may sign in; chat responses
\* arrive in any order with the user's actions.
InitChat ==
    /\ Start
    /\ localStorage = EmptyStorage
    /\ lsMode = "ok"
    /\ ssMode = "ok"
    /\ cryptoMode = "randomUUID"
    /\ bcMode = "ok"
    /\ observed = NoTab
    /\ widget \in {"audio", "pdf"}
    /\ isSignedIn \in BOOLEAN
    /\ ui = InitialUi
    /\ loops = [k \in Uploads |-> NoLoop]
    /\ server = [f \in FileNames |-> "absent"]
    /\ watch = NoWatch

NextChat ==
    \/ \E value \in Inputs : setInput(value)
    \/ handleSend
    \/ \E outcome \in {"message", "empty", "error"} : ChatResponse(outcome)
    \/ SignIn
    \/ \E f \in FileNames : AudioSelectFile(f)
    \/ \E f \in FileNames : PdfSelectFile(f)

SpecChat == InitChat /\ [][NextChat]_vars

\* SpecUpload: one page showing one of the two upload widgets, the user,
\* the timers and the server acting in any order; the session manager is
\* left alone.
InitUpload ==
    /\ Start
    /\ localStorage = EmptyStorage
    /\ lsMode = "ok"
    /\ ssMode = "ok"
    /\ cryptoMode = "randomUUID"
    /\ bcMode = "ok"
    /\ observed = NoTab
    /\ widget \in {"audio", "pdf"}
    /\ isSignedIn \in BOOLEAN
    /\ ui = InitialUi
    /\ loops = [k \in Uploads |-> NoLoop]
    /\ server = [f \in FileNames |-> "absent"]
    /\ watch = NoWatch

NextOfUpload ==
    \/ \E f \in FileNames : AudioSelectFile(f)
    \/ \E k \in Uploads, res \in {"ok", "refused", "error"} :
          AudioUploadResponse(k, res)
    \/ \E k \in Uploads, r \in Responses : AudioPollResponse(k, r)
    \/ \E k \in Uploads : AudioCeiling(k)
    \/ handleRemoveAudio
    \/ \E f \in FileNames : PdfSelectFile(f)
    \/ \E k \in Uploads, res \in {"ok", "refused", "error"} :
          PdfUploadResponse(k, res)
    \/ \E k \in Uploads, error \in BOOLEAN : PdfPollResponse(k, error)
    \/ \E k \in Uploads : PdfCeiling(k)
    \/ handleRemoveFile
    \/ \E k \in Uploads : IntervalTick(k)
    \/ \E f \in FileNames, s \in {"ready", "failed"} : ServerFinish(f, s)

SpecUpload == InitUpload /\ [][NextOfUpload]_vars

-----------------------------------------------------------------------------
(* Properties *)

\* 30 days, in units of 1000 ms.
ThirtyDays == 30 * 24 * 60 * 60

\* A stored timestamp is absent or more than 30 days before now.
WrittenOver30DaysAgo(timestamp) ==
    timestamp = NoTs \/ now - parseInt(timestamp) > ThirtyDays

\* The Storage object of StorageOf(t, tier) after the step.
StorageOfNext(t, tier) ==
    IF tier = "ls" THEN localStorage' ELSE sessionStorage'[t]

\* C1 (as claimed): in one page, two getSessionId calls with no refreshSession
\* or clearSession between them return the same identifier, whatever storage
\* failures and SESSION_UPDATE deliveries happen between them.
C1_SameIdUntilRefreshOrClear ==
    (last.op = "get" /\ last.tab = observed) => last.ret = hist.firstGet

\* C1 (amended): in one page, two getSessionId calls with no refreshSession,
\* no clearSession and no SESSION_UPDATE delivery to the tab between them
\* return the same identifier, whatever the storages hold or do meanwhile.
C1_SameIdWhileUndisturbed ==
    (last.op = "get" /\ last.tab = observed) =>
        /\ ~last.threw
        /\ last.ret = hist.quietGet

\* A second getSessionId returned the cached identifier while localStorage,
\* working, holds another one.
C1_Witness ==
    /\ last.op = "get" /\ last.tab = observed
    /\ hist.again
    /\ last.ret = hist.quietGet
    /\ lsMode = "ok"
    /\ localStorage.PRIMARY # NoId
    /\ localStorage.PRIMARY # last.ret

\* C2: when two tabs have both obtained an identifier and every pending
\* SESSION_UPDATE has been delivered, getSessionId returns the same
\* identifier in both (stated for tabs that both listen on a working
\* BroadcastChannel).
C2_TabsConverge ==
    ( /\ bcMode = "ok"
      /\ messages = {}
      /\ \A t \in Tabs : IsCached(t) /\ channels[t] > 0 )
    => \A t, u \in Tabs : memorySessionId[t] = memorySessionId[u]

\* C3: when the listener has handled a SESSION_UPDATE carrying X, the tab's
\* memory cache is X and, if a tier is available, its primary key is X.
C3_MessageAdopted ==
    last.op = "message" =>
        /\ memorySessionId[last.tab] = last.ret
        /\ getAvailableStorage # "none" =>
             StorageOf(last.tab, getAvailableStorage).PRIMARY = last.ret

\* C4: the first getSessionId after a clearSession does not return the
\* identifier that the clear discarded, whatever messages were pending.
C4_ClearedIdNotReturned ==
    (last.op = "get" /\ last.tab = observed /\ hist.cleared # NoId) =>
        last.ret # hist.cleared

\* C5: right after clearSession the memory cache is empty and neither the
\* primary nor the backup key of localStorage or of the tab's sessionStorage
\* holds the cleared identifier.
C5_ClearRemovesEverywhere ==
    (last.op = "clear" /\ last.tab = observed /\ hist.cleared # NoId) =>
        /\ memorySessionId[observed] = NoId
        /\ \A storage \in {localStorage, sessionStorage[observed]} :
             /\ storage.PRIMARY # hist.cleared
             /\ storage.BACKUP # hist.cleared

\* C6 (as claimed): refreshSession returns an identifier that differs from
\* the one held before, caches it, and, whenever a tier is available, leaves
\* the tier's primary key equal to it with the timestamp of the call.
C6_RefreshPersistsWheneverAvailable ==
    [][ last'.op = "refresh" =>
          LET t    == last'.tab
              tier == getAvailableStorage
          IN  /\ last'.ret # NoId
              /\ last'.ret # memorySessionId[t]
              /\ memorySessionId'[t] = last'.ret
              /\ tier # "none" =>
                   /\ StorageOfNext(t, tier).PRIMARY = last'.ret
                   /\ StorageOfNext(t, tier).TIMESTAMP # NoTs
                   /\ parseInt(StorageOfNext(t, tier).TIMESTAMP) = now
      ]_vars

\* C6 (amended): refreshSession returns an identifier that differs from the
\* one held before (cached or stored) and caches it; when a tier is available
\* and takes the write, the tier's primary key equals it with the timestamp
\* of the call; when the tier refuses the write, its three keys are left
\* empty; a getSessionId made directly afterwards returns the new identifier.
C6_RefreshReplaces ==
    [][ /\ last'.op = "refresh" =>
             LET t    == last'.tab
                 tier == getAvailableStorage
                 nx   == StorageOfNext(t, tier)
             IN  /\ ~last'.threw
                 /\ last'.ret # NoId
                 /\ last'.ret # memorySessionId[t]
                 /\ tier # "none" => last'.ret # StorageOf(t, tier).PRIMARY
                 /\ memorySessionId'[t] = last'.ret
                 /\ (tier # "none" /\ ~SetItemThrows(tier)) =>
                      /\ nx.PRIMARY = last'.ret
                      /\ nx.TIMESTAMP # NoTs
                      /\ parseInt(nx.TIMESTAMP) = now
                 /\ (tier # "none" /\ SetItemThrows(tier)) =>
                      nx = EmptyStorage
        /\ (last.op = "refresh" /\ last'.op = "get" /\ last'.tab = last.tab) =>
             /\ ~last'.threw
             /\ last'.ret = last.ret
      ]_vars

\* A refresh after the clock advanced, stored in sessionStorage.
C6_Witness ==
    /\ last.op = "refresh"
    /\ now > 0
    /\ getAvailableStorage = "ss"
    /\ ~SetItemThrows("ss")
    /\ memorySessionId[last.tab] = last.ret
    /\ sessionStorage[last.tab].PRIMARY = last.ret
    /\ parseInt(sessionStorage[last.tab].TIMESTAMP) = now

\* C7 (as claimed): on any getSessionId call, cached in memory or not, an
\* identifier held that was written more than 30 days before (or has no
\* timestamp) is discarded and a newly generated one is returned.
C7_ExpiredReplacedInAnyState ==
    [][ last'.op = "get" =>
          LET t    == last'.tab
              tier == getAvailableStorage
              st   == StorageOf(t, tier)
              held == IF memorySessionId[t] # NoId THEN memorySessionId[t]
                      ELSE st.PRIMARY
          IN  ( /\ tier # "none"
                /\ st.PRIMARY # NoId
                /\ st.PRIMARY = held
                /\ WrittenOver30DaysAgo(st.TIMESTAMP) )
              => /\ last'.gen
                 /\ last'.ret # held
                 /\ StorageOfNext(t, tier).PRIMARY # held
      ]_vars

\* C7 (amended): on a getSessionId call that finds the memory cache empty and
\* a tier available, a stored identifier written more than 30 days before
\* (or without timestamp) is discarded, its value and timestamp do not stay
\* in storage, and a newly generated identifier is returned; a stored
\* identifier of at least 10 characters written 30 days ago or less is kept.
C7_ExpiredReplacedOnStorageRead ==
    [][ last'.op = "get" =>
          LET t    == last'.tab
              tier == getAvailableStorage
              st   == StorageOf(t, tier)
              nx   == StorageOfNext(t, tier)
          IN  ( /\ memorySessionId[t] = NoId
                /\ tier # "none"
                /\ st.PRIMARY # NoId )
              => /\ WrittenOver30DaysAgo(st.TIMESTAMP) =>
                      /\ last'.gen
                      /\ last'.ret # NoId
                      /\ last'.ret # st.PRIMARY
                      /\ nx.PRIMARY # st.PRIMARY
                      /\ nx.TIMESTAMP = NoTs \/ parseInt(nx.TIMESTAMP) = now
                 /\ ( /\ ~WrittenOver30DaysAgo(st.TIMESTAMP)
                      /\ st.PRIMARY.len >= 10 ) =>
                      /\ ~last'.gen
                      /\ last'.ret = st.PRIMARY
                      /\ nx = st
      ]_vars

\* A getSessionId discarded a well-formed stored identifier for its age.
C7_Witness ==
    /\ last.op = "get"
    /\ last.gen
    /\ last.found # NoId
    /\ last.found.len >= 10
    /\ last.foundTs # NoTs
    /\ now - parseInt(last.foundTs) > ThirtyDays
    /\ last.ret # last.found

\* C8: a getSessionId call that reads a stored primary identifier shorter
\* than 10 characters removes it and its timestamp from storage and returns
\* a newly generated identifier instead.
C8_ShortIdReplaced ==
    [][ last'.op = "get" =>
          LET t    == last'.tab
              tier == getAvailableStorage
              st   == StorageOf(t, tier)
              nx   == StorageOfNext(t, tier)
          IN  ( /\ memorySessionId[t] = NoId
                /\ tier # "none"
                /\ st.PRIMARY # NoId
                /\ st.PRIMARY.len < 10 )
              => /\ last'.gen
                 /\ last'.ret # NoId
                 /\ last'.ret # st.PRIMARY
                 /\ nx.PRIMARY # st.PRIMARY
                 /\ IF SetItemThrows(tier)
                    THEN nx.PRIMARY = NoId /\ nx.TIMESTAMP = NoTs
                    ELSE nx.PRIMARY = last'.ret /\ parseInt(nx.TIMESTAMP) = now
      ]_vars

\* A getSessionId found the short identifier and stored a new one.
C8_Witness ==
    /\ last.op = "get"
    /\ last.found # NoId
    /\ last.found.len < 10
    /\ last.gen
    /\ localStorage.PRIMARY = last.ret
    /\ last.ret.len >= 10

C11_ReloadKeepsId ==
    [][ last'.op = "get" =>
          LET t    == last'.tab
              tier == getAvailableStorage
              st   == StorageOf(t, tier)
              nx   == StorageOfNext(t, tier)
          IN  /\ ( /\ last'.gen
                   /\ tier # "none"
                   /\ ~SetItemThrows(tier) )
                 => /\ ~last'.threw
                    /\ nx.PRIMARY = last'.ret
                    /\ nx.TIMESTAMP # NoTs
                    /\ parseInt(nx.TIMESTAMP) = now
              /\ ( /\ t = observed
                   /\ memorySessionId[t] = NoId
                   /\ hist.reloaded # NoId
                   /\ tier # "none"
                   /\ st.PRIMARY = hist.reloaded
                   /\ ~WrittenOver30DaysAgo(st.TIMESTAMP) )
                 => /\ last'.ret = hist.reloaded
                    /\ ~last'.gen
                    /\ ~last'.threw
                    /\ nextId' = nextId
                    /\ nx.PRIMARY = st.PRIMARY
                    /\ nx.TIMESTAMP = st.TIMESTAMP
      ]_vars

\* The page was loaded again exactly 30 days after its identifier was
\* written, and getSessionId returned that identifier from storage.
C11_Witness ==
    /\ last.op = "get" /\ last.tab = observed
    /\ hist.reloaded # NoId
    /\ last.ret = hist.reloaded
    /\ ~last.gen
    /\ last.found = hist.reloaded
    /\ last.foundTs # NoTs
    /\ now - parseInt(last.foundTs) = ThirtyDays

\* C12: every request the page has sent carries the identifier the session
\* manager holds for the page, none carries another identifier or the
\* placeholder 'default', and all requests carry the same value.
C12_OneIdInAllRequests ==
    /\ \A r \in requests :
         /\ r.sessionId = memorySessionId[observed]
         /\ r.sessionId # DefaultId
    /\ \A r1, r2 \in requests : r1.sessionId = r2.sessionId

\* C13: validateSession returns true exactly when the identifier its
\* getSessionId call returned is non-empty, is not 'server-default' and has
\* at least 10 characters; it raises no error; and the step it takes is a
\* step of getSessionId in the same tab (same changes of memory, storage,
\* channels and messages).
C13_ValidateSession ==
    [][ validated'.tab # NoTab =>
          LET t == validated'.tab
          IN  /\ getSessionId(t)
              /\ ~last'.threw
              /\ last'.op = "get" /\ last'.tab = t
              /\ validated'.result =
                   ( /\ last'.ret # NoId
                     /\ last'.ret.form # "server-default"
                     /\ last'.ret.len >= 10 )
      ]_vars

\* validateSession returned true for an identifier its getSessionId call
\* read from storage, where another tab had stored it.
C13_Witness ==
    /\ validated.tab # NoTab
    /\ validated.result
    /\ last.op = "get" /\ last.tab = validated.tab
    /\ ~last.gen
    /\ last.found # NoId
    /\ last.ret = last.found
    /\ memorySessionId[validated.tab] = last.ret

\* The four views of an upload that goes well, in order.
HappyPath == <<{"idle"}, {"uploading"}, {"processing"}, {"ready"}>>

\* C14: audio widget: when the upload succeeded and the polls of the upload
\* were told processing, processing, ready, the views shown since the file
\* was selected are idle, uploading, processing, ready and nothing else.
C14_AudioHappyPath ==
    (widget = "audio" /\ watch.scen = "ready") => watch.trace = HappyPath

\* C15: PDF widget: when the upload succeeded and the polls of the upload
\* were told processing, processing, ready for the uploaded file, the views
\* shown since the file was selected are idle, uploading, processing, ready,
\* and the widget shows ready.
C15_PdfHappyPath ==
    (widget = "pdf" /\ watch.scen = "ready") =>
        /\ watch.trace = HappyPath
        /\ PdfView(ui) = {"ready"}

\* C16: audio widget: once a poll of the upload was told failed, and until
\* the user acts, the widget shows the failed block alone (with its 'Try
\* Again' button) and a non-empty error message, and the upload's interval
\* is cleared.
C16_AudioFailedStatus ==
    (widget = "audio" /\ watch.outcome = "failed") =>
        /\ AudioView(ui) = {"failed"}
        /\ ui.errorMessage # NoMessage
        /\ loops[watch.cur].stage # "polling"

\* C17: audio widget: once the ceiling of the upload elapsed with no
\* terminal status seen, and until the user acts, the widget shows the
\* failed block and the message 'Processing timeout. Please try again.'.
C17_AudioTimeoutMessage ==
    (widget = "audio" /\ watch.outcome = "timeout") =>
        /\ AudioView(ui) = {"failed"}
        /\ ui.errorMessage = "Processing timeout. Please try again."

\* C18: PDF widget: once the upload failed (request refused or thrown, a
\* poll that errored, status failed, ceiling reached), and until the user
\* acts, the widget shows a view other than the idle one.
C18_PdfFailureVisible ==
    ( /\ widget = "pdf"
      /\ watch.outcome \in {"refused", "error", "failed", "timeout"} )
    => "idle" \notin PdfView(ui)

\* C19: in both widgets, a loop whose poll met ready or failed, or whose
\* ceiling timer fired, has its interval cleared and issues no further
\* status request; an interval that runs has its ceiling timer pending.
C19_LoopsStop ==
    [][ \A k \in Uploads :
          /\ loops'[k].stage = "polling" =>
               (loops'[k].ceiling = "armed" /\ ~loops'[k].terminal)
          /\ loops'[k].inflight > loops[k].inflight =>
               (loops[k].ceiling = "armed" /\ ~loops[k].terminal)
      ]_vars

\* A PDF loop that never found its file and was stopped by its ceiling
\* timer, and an earlier one stopped by a terminal status.
C19_Witness ==
    \E j, k \in Uploads :
        /\ loops[j].terminal /\ loops[j].stage = "cleared"
        /\ loops[j].ceiling = "armed"
        /\ ~loops[k].terminal /\ loops[k].stage = "cleared"
        /\ loops[k].ceiling = "fired"

\* C20: in both widgets, no two uploads of the same file have their
\* intervals running at once.
C20_OneLoopPerFile ==
    \A j, k \in Uploads :
        ( /\ j # k
          /\ loops[j].stage = "polling"
          /\ loops[k].stage = "polling" )
        => loops[j].file # loops[k].file

\* C22: audio widget: after the upload request of the user's last upload
\* was refused or failed, the widget shows the failure view alone, with a
\* message; that upload has started no interval, no ceiling timer and no
\* status request.
C22_AudioUploadRefused ==
    (widget = "audio" /\ watch.outcome \in {"refused", "error"}) =>
        /\ AudioView(ui) = {"failed"}
        /\ ~ui.isUploading
        /\ ui.errorMessage # NoMessage
        /\ loops[watch.cur].stage = "rejected"
        /\ loops[watch.cur].ceiling = "none"
        /\ loops[watch.cur].inflight = 0

\* C27: audio widget: the answer to a status request that failed, that does
\* not list the file, or that reports it processing changes no state flag
\* and not the message, and leaves the interval and the ceiling timer of
\* its upload as they were.
C27_AudioPollContinues ==
    [][ \A k \in Uploads :
          ( /\ widget = "audio"
            /\ loops'[k].inflight < loops[k].inflight
            /\ watch'.evt.r \in {"error", "absent", "processing"} )
          => /\ ui' = ui
             /\ loops'[k].stage = loops[k].stage
             /\ loops'[k].ceiling = loops[k].ceiling
             /\ loops'[k].settled = loops[k].settled
      ]_vars

\* A status request of the audio widget failed and its loop goes on.
C27_Witness ==
    /\ widget = "audio"
    /\ watch.evt.kind = "pollResponse"
    /\ watch.evt.r = "error"
    /\ loops[watch.evt.k].stage = "polling"
    /\ loops[watch.evt.k].ceiling = "armed"
    /\ AudioView(ui) = {"processing"}

\* C28: a widget that shows the ready view keeps showing it, whatever timer
\* fires or response arrives, until the user presses 'Upload New'.
C28_ReadyUntilUploadNew ==
    [][ ( /\ ViewOf(ui) = {"ready"}
          /\ watch'.evt.kind # "remove" )
        => ViewOf(ui') = {"ready"} ]_vars

\* C29: the audio widget renders exactly one of its five views.
C29_AudioOneView ==
    widget = "audio" => Cardinality(AudioView(ui)) = 1

\* The tab and the kind of the getSessionId step that found its memory
\* cache empty (PRIMARY read, or no tier to read).
EmptyCacheGet(t) ==
    /\ last'.op = "get"
    /\ last'.tab = t
    /\ memorySessionId[t] = NoId

\* C24 (as claimed): a getSessionId call with an empty memory cache reads and
\* writes localStorage alone when localStorage passes validation,
\* sessionStorage alone when localStorage fails and sessionStorage passes,
\* and no storage when both fail.
C24_OnlySelectedTierTouched ==
    [][ \A t \in Tabs : EmptyCacheGet(t) =>
          /\ lsMode # "denied" =>
               /\ last'.found = localStorage.PRIMARY
               /\ sessionStorage' = sessionStorage
          /\ (lsMode = "denied" /\ ssMode # "denied") =>
               /\ last'.found = sessionStorage[t].PRIMARY
               /\ localStorage' = localStorage
          /\ (lsMode = "denied" /\ ssMode = "denied") =>
               /\ last'.found = NoId
               /\ localStorage' = localStorage
               /\ sessionStorage' = sessionStorage
      ]_vars

\* C24 (amended): the identifier and its timestamp are read from and written
\* to localStorage when it passes validation, to the tab's sessionStorage
\* when localStorage fails and sessionStorage passes, and to no storage
\* when both fail; a storage that fails validation keeps its content; and
\* when localStorage is the tier and a new identifier was stored, a copy is
\* also written to the backup key of the tab's sessionStorage, which is not
\* validated, provided it accepts the write.
C24_TierByValidation ==
    [][ \A t \in Tabs : EmptyCacheGet(t) =>
          /\ lsMode # "denied" =>
               /\ last'.found = localStorage.PRIMARY
               /\ (last'.gen /\ lsMode = "ok") =>
                    /\ localStorage'.PRIMARY = last'.ret
                    /\ parseInt(localStorage'.TIMESTAMP) = now
               /\ sessionStorage' =
                    IF last'.gen /\ lsMode = "ok" /\ ssMode = "ok"
                    THEN [sessionStorage EXCEPT ![t].BACKUP = last'.ret]
                    ELSE sessionStorage
          /\ (lsMode = "denied" /\ ssMode # "denied") =>
               /\ last'.found = sessionStorage[t].PRIMARY
               /\ (last'.gen /\ ssMode = "ok") =>
                    /\ sessionStorage'[t].PRIMARY = last'.ret
                    /\ parseInt(sessionStorage'[t].TIMESTAMP) = now
               /\ \A u \in Tabs \ {t} : sessionStorage'[u] = sessionStorage[u]
          /\ (lsMode = "denied" /\ ssMode = "denied") => last'.found = NoId
          /\ lsMode = "denied" => localStorage' = localStorage
          /\ ssMode = "denied" => sessionStorage' = sessionStorage
      ]_vars

\* A getSessionId call found localStorage refused, read a malformed or no
\* identifier from the tab's sessionStorage and stored a new one there.
C24_Witness ==
    /\ last.op = "get"
    /\ last.gen
    /\ lsMode = "denied"
    /\ ssMode = "ok"
    /\ sessionStorage[last.tab].PRIMARY = last.ret
    /\ localStorage.PRIMARY # last.ret

\* C25: a getSessionId call made while the memory cache of its tab holds an
\* identifier returns that identifier, draws none, and leaves both
\* storages, every tab's memory cache, the open channels and the queued
\* messages as they were.
C25_CachedGetTouchesNothing ==
    [][ \A t \in Tabs :
          ( /\ last'.op = "get"
            /\ last'.tab = t
            /\ memorySessionId[t] # NoId )
          => /\ last'.ret = memorySessionId[t]
             /\ ~last'.gen
             /\ ~last'.threw
             /\ UNCHANGED <<localStorage, sessionStorage, memorySessionId,
                            channels, messages, nextId>>
      ]_vars

\* A getSessionId call returned the cached identifier while the available
\* storage, emptied by another tab, holds none: nothing was stored.
C25_Witness ==
    /\ last.op = "get"
    /\ ~last.gen
    /\ last.ret # NoId
    /\ last.ret = memorySessionId[last.tab]
    /\ getAvailableStorage # "none"
    /\ ~SetItemThrows(getAvailableStorage)
    /\ StorageOf(last.tab, getAvailableStorage).PRIMARY = NoId

\* The SESSION_UPDATE deliveries that one postMessage of identifier id by
\* tab t causes: one for every channel object open before the call.
Deliveries(id) ==
    { m \in [to : Tabs, ch : 1..MaxIds, sessionId : {id}] :
        m.ch <= channels[m.to] }

\* C26: where BroadcastChannel works, a getSessionId or refreshSession call
\* that generates an identifier opens one channel and posts one
\* SESSION_UPDATE on it, carrying that identifier: it is queued once for
\* every channel that was open, and nothing else is queued; a getSessionId
\* call that returns a cached or stored identifier opens no channel and
\* queues nothing.
C26_OneUpdatePerGeneration ==
    [][ \A t \in Tabs :
          (last'.tab = t /\ last'.op \in {"get", "refresh"} /\ last' # last)
          => IF last'.gen
             THEN bcMode = "ok" =>
                    /\ last'.ret # NoId
                    /\ nextId' = nextId + 1
                    /\ channels' = [channels EXCEPT ![t] = @ + 1]
                    /\ messages' = messages \cup Deliveries(last'.ret)
                    /\ Deliveries(last'.ret) \cap messages = {}
             ELSE /\ channels' = channels
                  /\ messages' = messages
      ]_vars

\* A tab generated an identifier and its SESSION_UPDATE is queued for a
\* channel of the other tab.
C26_Witness ==
    /\ last.op \in {"get", "refresh"}
    /\ last.gen
    /\ bcMode = "ok"
    /\ \E m \in messages : m.sessionId = last.ret /\ m.to # last.tab
    /\ \A m \in messages : m.sessionId = last.ret => m.ch <= channels[m.to]

\* C30: every identifier that getSessionId returns, and every identifier a
\* memory cache holds (those adopted from SESSION_UPDATE messages included),
\* has at least 10 characters; so every validateSession call returns true.
C30_ReturnedIdsAreLong ==
    /\ last.op = "get" => (~last.threw /\ last.ret.len >= 10)
    /\ \A t \in Tabs :
         memorySessionId[t] # NoId => memorySessionId[t].len >= 10
    /\ validated.tab # NoTab => validated.result

\* Where localStorage is refused, validateSession returned true in a tab
\* for the identifier another tab generated: it reached the tab by a
\* SESSION_UPDATE message.
C30_Witness ==
    /\ lsMode = "denied"
    /\ ssMode = "ok"
    /\ validated.tab # NoTab
    /\ validated.result
    /\ last.op = "get" /\ last.tab = validated.tab
    /\ ~last.gen
    /\ last.ret.len >= 10
    /\ \E u \in Tabs \ {last.tab} :
         /\ sessionStorage[u].PRIMARY = last.ret
         /\ memorySessionId[u] = last.ret

\* The step is a call of handleSend / a click on the upload zone.
SendStep == chat'.evt \in {"ignored", "showAuthToast", "sent"} /\ chat' # chat
ClickStep == watch' # watch

\* Nothing was sent and no state of a widget changed, but for the record of
\* the handler that ran.
NothingDone ==
    /\ requests' = requests
    /\ ui' = ui
    /\ loops' = loops
    /\ chat'.messages = chat.messages
    /\ chat'.input = chat.input
    /\ chat'.isLoading = chat.isLoading
    /\ chat'.inflight = chat.inflight

\* C21 (as claimed): while the user is not signed in, every upload click and
\* every chat send shows the sign-in notification, sends no request and
\* changes no widget state.
C21_SignedOutAlwaysNotified ==
    [][ ~isSignedIn =>
          /\ SendStep => (chat'.evt = "showAuthToast" /\ NothingDone)
          /\ ClickStep => (watch'.evt.kind = "showAuthToast" /\ NothingDone)
      ]_vars

\* C21 (amended): while the user is not signed in, an upload click and a
\* chat send with non-blank input show the sign-in notification, a chat send
\* with blank input shows nothing, and none of them sends a request or
\* changes a widget's state; no request was sent and none is pending, and
\* signing in by itself sends nothing and changes no widget's state.
C21_SignedOutRefused ==
    [][ ~isSignedIn =>
          /\ SendStep =>
               /\ chat'.evt = IF trim(chat.input) = "" THEN "ignored"
                              ELSE "showAuthToast"
               /\ NothingDone
          /\ ClickStep => (watch'.evt.kind = "showAuthToast" /\ NothingDone)
          /\ isSignedIn' => (NothingDone /\ chat' = chat /\ watch' = watch)
          /\ requests = {}
          /\ chat.inflight = 0
          /\ \A k \in Uploads : loops[k] = NoLoop
      ]_vars

\* Signed out, the user typed a text and sent it, and clicked the upload
\* zone: both notifications were shown, the text is still in the input.
C21_Witness ==
    /\ ~isSignedIn
    /\ chat.evt = "showAuthToast"
    /\ watch.evt.kind = "showAuthToast"
    /\ chat.input = " hi "
    /\ chat.messages = << >>
    /\ requests = {}

\* The entries of the list alternate: user, assistant, user, ...
Alternates(list) ==
    \A i \in 1..Len(list) :
        list[i].role = IF i % 2 = 1 THEN "user" ELSE "bot"

\* C23: a handleSend call with non-blank input, signed in and not loading
\* appends the user's message, sets isLoading and sends one chat request;
\* any other handleSend call appends nothing and sends nothing; the answer
\* to the request appends one assistant entry (the response text, the
\* fallback text or the error text) and resets isLoading; at most one
\* request is in flight and the list alternates user and assistant
\* entries.
C23_ChatExchange ==
    [][ /\ SendStep =>
             IF trim(chat.input) # "" /\ isSignedIn /\ ~chat.isLoading
             THEN /\ chat'.messages =
                       Append(chat.messages,
                              [role |-> "user", content |-> chat.input])
                  /\ chat'.isLoading
                  /\ chat'.inflight = chat.inflight + 1
                  /\ \E r \in requests' : r.kind = "chat"
                  /\ Cardinality(requests' \ requests) <= 1
             ELSE /\ chat'.messages = chat.messages
                  /\ chat'.inflight = chat.inflight
                  /\ requests' = requests
        /\ chat'.inflight < chat.inflight =>
             /\ chat'.inflight = chat.inflight - 1
             /\ Len(chat'.messages) = Len(chat.messages) + 1
             /\ SubSeq(chat'.messages, 1, Len(chat.messages)) = chat.messages
             /\ Last(chat'.messages).role = "bot"
             /\ Last(chat'.messages).content
                  \in {ResponseText, FallbackText, ErrorText}
             /\ ~chat'.isLoading
             /\ requests' = requests
        /\ chat'.inflight <= 1
        /\ chat'.isLoading = (chat'.inflight = 1)
        /\ Alternates(chat'.messages)
        /\ Len(chat'.messages) % 2 = chat'.inflight
      ]_vars

\* Two exchanges are complete: the second request failed and the error text
\* answers it.
C23_Witness ==
    /\ Len(chat.messages) = 4
    /\ Alternates(chat.messages)
    /\ chat.messages[2].content = FallbackText
    /\ chat.messages[4].content = ErrorText
    /\ ~chat.isLoading
    /\ chat.inflight = 0

\* The selected persistence tier accepts writes.
Writable == getAvailableStorage # "none" /\ ~SetItemThrows(getAvailableStorage)

\* C31 (as claimed): in every reachable state, a tab whose memory cache
\* holds an identifier finds the same identifier under the primary key of
\* the selected tier, when that tier is writable.
C31_CacheMatchesStorage ==
    \A t \in Tabs :
        (memorySessionId[t] # NoId /\ Writable) =>
            StorageOf(t, getAvailableStorage).PRIMARY = memorySessionId[t]

\* C31 (amended): when the selected tier is writable, the tab's memory cache
\* and the tier's primary key hold the same identifier right after each of
\* the tab's handlers that write both: a getSessionId that found the cache
\* empty, a refreshSession, and the delivery of a SESSION_UPDATE.
C31_CacheMatchesStorageAfterWrite ==
    [][ \A t \in Tabs :
          ( /\ last'.tab = t
            /\ Writable
            /\ \/ last'.op = "get" /\ memorySessionId[t] = NoId
               \/ last'.op = "refresh"
               \/ last'.op = "message" ) =>
            /\ memorySessionId'[t] # NoId
            /\ memorySessionId'[t] = last'.ret
            /\ StorageOfNext(t, getAvailableStorage).PRIMARY
                 = memorySessionId'[t]
      ]_vars

\* A SESSION_UPDATE was delivered to a tab that held another identifier;
\* the tab's cache and its tier's primary key now hold the delivered one,
\* while the other tab's cache holds an identifier that its storage does
\* not.
C31_Witness ==
    /\ last.op = "message"
    /\ Writable
    /\ memorySessionId[last.tab] = last.ret
    /\ StorageOf(last.tab, getAvailableStorage).PRIMARY = last.ret
    /\ \E t \in Tabs :
         /\ memorySessionId[t] # NoId
         /\ StorageOf(t, getAvailableStorage).PRIMARY # memorySessionId[t]

\* C32: where BroadcastChannel exists, a tab that getSessionId has just
\* given an identifier has an open channel with a listener, so it adopts
\* the identifier another tab broadcasts later; this holds too for a tab
\* whose call found the identifier in storage and generated nothing.
C32_EveryHolderListens ==
    (last.op = "get" /\ ~last.threw /\ bcMode # "missing") =>
        channels[last.tab] > 0

\* C33: at most one chat request is in flight; a handleSend call made while
\* a request is pending sends nothing and appends nothing.  (handleSend
\* runs from a click or key press: React commits the state it set before
\* the next event is handled, so each call sees the state the previous one
\* left.)
C33_OneRequestInFlight ==
    [][ /\ chat'.inflight <= 1
        /\ (SendStep /\ chat.inflight > 0) =>
             /\ chat'.evt = "ignored"
             /\ requests' = requests
             /\ chat'.messages = chat.messages
             /\ chat'.inflight = chat.inflight
             /\ chat'.isLoading
      ]_vars

\* The second request is pending and a send made meanwhile was ignored.
C33_Witness ==
    /\ chat.evt = "ignored"
    /\ chat.isLoading
    /\ chat.inflight = 1
    /\ Len(chat.messages) = 3
    /\ isSignedIn

\* C34: a getSessionId call that finds in storage what the simple revision
\* of getSessionId left there (an identifier of at least 10 characters
\* under the primary key, no timestamp key) returns that identifier and
\* generates none.
C34_AgreesWithSimpleRevision ==
    LET legacy == getSessionIdSimple(EmptyStorage)
    IN  ( /\ last.op = "get"
          /\ last.found = legacy.PRIMARY
          /\ last.found.len >= MinLength
          /\ last.foundTs = legacy.TIMESTAMP ) =>
            (last.ret = legacy.PRIMARY /\ ~last.gen)

=============================================================================
